---- MODULE Spec2Model ----
(***************************************************************************)
(* Model of rigol.py: the SCPI command/response layer of BaseVisaDevice,   *)
(* RigolDP832 (power supply) and Rigol1054Z (oscilloscope).                *)
(*                                                                         *)
(* Python strings that the code inspects (strip, upper, lower, "in",       *)
(* indexing, slicing, float) are sequences of one-character strings.       *)
(* Command strings handed to the transport are TLA+ strings built by       *)
(* concatenation, as str.format builds them.                               *)
(***************************************************************************)
EXTENDS Integers, Sequences, FiniteSets, TLC

VARIABLES
    phase,          \* "new", "ready" (constructed, idle), "called" (a call has ended), "failed", "closed"
    cls,            \* class being constructed / in use: "RigolDP832", "Rigol1054Z", "none"
    discovery,      \* the bus as an environment: [ok, list] (list_resources result or VisaIOError)
    usb_devices,    \* self.usb_devices: [set, val]
    opened,         \* identifiers passed to rm.open_resource, in order
    device,         \* self.device: [set, val] (val is the identifier the handle is bound to)
    log,            \* transport traffic of the most recent call, in order
    call            \* the most recent call: its name, arguments, outcome and return value

vars == <<phase, cls, discovery, usb_devices, opened, device, log, call>>

(***************************************************************************)
(* Bounds of the model.                                                    *)
(***************************************************************************)
MaxDevs == 3          \* longest list of discovered identifiers
MaxChannelArg == 6    \* channel arguments range over -1..MaxChannelArg
MaxTokens == 3        \* longest waveform token stream drawn exhaustively

(***************************************************************************)
(* Python string primitives.                                               *)
(***************************************************************************)
Whitespace == {" ", "\t", "\n", "\r"}

LowerCase == <<"a","b","c","d","e","f","g","h","i","j","k","l","m",
               "n","o","p","q","r","s","t","u","v","w","x","y","z">>
UpperCase == <<"A","B","C","D","E","F","G","H","I","J","K","L","M",
               "N","O","P","Q","R","S","T","U","V","W","X","Y","Z">>

UpperChar(c) ==
    IF \E i \in DOMAIN LowerCase : LowerCase[i] = c
    THEN UpperCase[CHOOSE i \in DOMAIN LowerCase : LowerCase[i] = c]
    ELSE c

LowerChar(c) ==
    IF \E i \in DOMAIN UpperCase : UpperCase[i] = c
    THEN LowerCase[CHOOSE i \in DOMAIN UpperCase : UpperCase[i] = c]
    ELSE c

\* str.upper()
upper(s) == [i \in DOMAIN s |-> UpperChar(s[i])]

\* str.lower()
lower(s) == [i \in DOMAIN s |-> LowerChar(s[i])]

\* str.strip(): leading and trailing whitespace removed, inner whitespace kept
strip(s) ==
    LET keep == {i \in DOMAIN s : s[i] \notin Whitespace}
    IN  IF keep = {} THEN <<>>
        ELSE LET lo == CHOOSE i \in keep : \A j \in keep : i <= j
                 hi == CHOOSE i \in keep : \A j \in keep : i >= j
             IN  SubSeq(s, lo, hi)

\* the Python test `sub in s` on strings
Contains(sub, s) ==
    \E i \in 1..(Len(s) - Len(sub) + 1) : SubSeq(s, i, i + Len(sub) - 1) = sub

\* the Python slice s[n:] (n is the 0-based start)
SliceFrom(s, n) == SubSeq(s, n + 1, Len(s))

\* truth value of a Python string: only the empty string is false
Truthy(s) == Len(s) # 0

\* a character sequence as the text it spells
RECURSIVE Str(_)
Str(s) == IF s = <<>> THEN "" ELSE Head(s) \o Str(Tail(s))

\* str.replace(old, new): non-overlapping occurrences, left to right
RECURSIVE replace(_, _, _)
replace(s, old, new) ==
    IF Len(s) < Len(old) \/ Len(old) = 0 THEN s
    ELSE IF SubSeq(s, 1, Len(old)) = old
         THEN new \o replace(SliceFrom(s, Len(old)), old, new)
         ELSE <<Head(s)>> \o replace(Tail(s), old, new)

(***************************************************************************)
(* Literals of the source.                                                 *)
(***************************************************************************)
s_USB == <<"U", "S", "B">>
s_DP8 == <<"D", "P", "8">>
s_DS1Z == <<"D", "S", "1", "Z">>
s_DC == <<"D", "C">>
s_AC == <<"A", "C">>
s_falling == <<"f", "a", "l", "l", "i", "n", "g">>
s_rising == <<"r", "i", "s", "i", "n", "g">>
s_single == <<"s", "i", "n", "g", "l", "e">>
s_ee == <<"e", "e">>
s_e == <<"e">>

(***************************************************************************)
(* The bus: identifiers list_resources can report.                         *)
(***************************************************************************)
id_usb_dp8_a == <<"U", "S", "B", "0", ":", ":", "D", "P", "8", "3", "2", "A", ":", ":", "I", "N", "S", "T", "R">>
id_usb_dp8_b == <<"U", "S", "B", "1", ":", ":", "D", "P", "8", "1", "1", ":", ":", "I", "N", "S", "T", "R">>
id_usb_ds1z == <<"U", "S", "B", "0", ":", ":", "D", "S", "1", "Z", "A", "1", "7", ":", ":", "I", "N", "S", "T", "R">>
id_tcp_dp8 == <<"T", "C", "P", "I", "P", ":", ":", "D", "P", "8", "3", "2", ":", ":", "I", "N", "S", "T", "R">>
id_usb_other == <<"U", "S", "B", "2", ":", ":", "D", "G", "1", "0", "2", "2", ":", ":", "I", "N", "S", "T", "R">>

Identifiers == {id_usb_dp8_a, id_usb_dp8_b, id_usb_ds1z, id_tcp_dp8, id_usb_other}

IdLists == UNION {[1..n -> Identifiers] : n \in 0..MaxDevs}

\* list_resources() returns a list, or the resource manager raises VisaIOError
Discoveries ==
    {[ok |-> TRUE, list |-> l] : l \in IdLists} \cup {[ok |-> FALSE, list |-> <<>>]}

Unset == [set |-> FALSE, val |-> <<>>]
Attr(v) == [set |-> TRUE, val |-> v]

(***************************************************************************)
(* Return values and call records.                                         *)
(***************************************************************************)
RetNone == [tag |-> "None", chars |-> <<>>, num |-> 0, data |-> <<>>]
RetInt(n) == [tag |-> "int", chars |-> <<>>, num |-> n, data |-> <<>>]
RetStr(s) == [tag |-> "str", chars |-> s, num |-> 0, data |-> <<>>]
RetNum(n) == [tag |-> "float", chars |-> <<>>, num |-> n, data |-> <<>>]
RetList(d) == [tag |-> "list", chars |-> <<>>, num |-> 0, data |-> d]

NoCall ==
    [op |-> "none", channel |-> 0, dc |-> FALSE, text |-> "", level |-> 0,
     trig_type |-> <<>>, coupling |-> <<>>, slope |-> <<>>, reply |-> <<>>,
     tokens |-> <<>>, outcome |-> "none", ret |-> RetNone]

\* the result of running a method body: traffic, how it ended, what it returned
Res(l, o, r) == [log |-> l, outcome |-> o, ret |-> r]

Returned == "returned"

(***************************************************************************)
(* Construction.                                                           *)
(***************************************************************************)
\* the list comprehension of BaseVisaDevice.__init__: identifiers with "USB" in them
RECURSIVE UsbOnly(_)
UsbOnly(l) ==
    IF l = <<>> THEN <<>>
    ELSE IF Contains(s_USB, Head(l)) THEN <<Head(l)>> \o UsbOnly(Tail(l))
         ELSE UsbOnly(Tail(l))

\* BaseVisaDevice.__init__: on VisaIOError the message is printed and
\* self.usb_devices is left unassigned
BaseInit(d) == IF d.ok THEN Attr(UsbOnly(d.list)) ELSE Unset

\* the scan `for dev in self.usb_devices: if tag in dev: ... break`
FirstMatch(devs, tag) ==
    LET hits == {i \in DOMAIN devs : Contains(tag, devs[i])}
    IN  IF hits = {} THEN 0 ELSE CHOOSE i \in hits : \A j \in hits : i <= j

\* the body shared by RigolDP832.__init__ and Rigol1054Z.__init__ (they differ in
\* the family substring and the message): the object's fields after the call
FamilyInit(d, tag, notFound) ==
    LET usb == BaseInit(d)
        hit == FirstMatch(usb.val, tag)
    IN  IF ~usb.set
        THEN \* `for dev in self.usb_devices` reads the unassigned attribute
             [phase |-> "failed", usb_devices |-> usb, opened |-> <<>>,
              device |-> Unset, outcome |-> "AttributeError"]
        ELSE IF hit = 0
        THEN [phase |-> "failed", usb_devices |-> usb, opened |-> <<>>,
              device |-> Unset, outcome |-> notFound]
        ELSE [phase |-> "ready", usb_devices |-> usb, opened |-> <<usb.val[hit]>>,
              device |-> Attr(usb.val[hit]), outcome |-> Returned]

DP832NotFound == "RuntimeError: Failed to find a DP832!"
DS1054ZNotFound == "RuntimeError: Failed to find a DS1054Z!"

RigolDP832_init ==
    /\ phase = "new"
    /\ LET r == FamilyInit(discovery, s_DP8, DP832NotFound)
       IN  /\ phase' = r.phase
           /\ cls' = "RigolDP832"
           /\ usb_devices' = r.usb_devices
           /\ opened' = opened \o r.opened
           /\ device' = r.device
           /\ call' = [NoCall EXCEPT !.op = "RigolDP832.__init__", !.outcome = r.outcome]
    /\ UNCHANGED <<discovery, log>>

Rigol1054Z_init ==
    /\ phase = "new"
    /\ LET r == FamilyInit(discovery, s_DS1Z, DS1054ZNotFound)
       IN  /\ phase' = r.phase
           /\ cls' = "Rigol1054Z"
           /\ usb_devices' = r.usb_devices
           /\ opened' = opened \o r.opened
           /\ device' = r.device
           /\ call' = [NoCall EXCEPT !.op = "Rigol1054Z.__init__", !.outcome = r.outcome]
    /\ UNCHANGED <<discovery, log>>

(***************************************************************************)
(* float(str): Python's decimal floating-point literal grammar, after      *)
(* stripping surrounding whitespace: [sign] digits [. digits] [e [sign]    *)
(* digits], with at least one mantissa digit.  A value is the pair (m, e)  *)
(* meaning m * 10^e, normalised so that equal numbers are equal pairs.     *)
(***************************************************************************)
Digits == <<"0", "1", "2", "3", "4", "5", "6", "7", "8", "9">>

IsDigit(c) == \E i \in DOMAIN Digits : Digits[i] = c

DigitVal(c) == (CHOOSE i \in DOMAIN Digits : Digits[i] = c) - 1

AllDigits(s) == \A i \in DOMAIN s : IsDigit(s[i])

RECURSIVE DigitsVal(_)
DigitsVal(s) ==
    IF s = <<>> THEN 0 ELSE 10 * DigitsVal(SubSeq(s, 1, Len(s) - 1)) + DigitVal(s[Len(s)])

\* 1-based index of the first character of s that lies in cs, or 0
FirstOf(s, cs) ==
    LET hits == {i \in DOMAIN s : s[i] \in cs}
    IN  IF hits = {} THEN 0 ELSE CHOOSE i \in hits : \A j \in hits : i <= j

HasSign(s) == Len(s) > 0 /\ s[1] \in {"+", "-"}

Unsigned(s) == IF HasSign(s) THEN Tail(s) ELSE s

SignOf(s) == IF Len(s) > 0 /\ s[1] = "-" THEN -1 ELSE 1

RECURSIVE Normalise(_, _)
Normalise(m, e) ==
    IF m = 0 THEN [m |-> 0, e |-> 0]
    ELSE IF m % 10 = 0 THEN Normalise(m \div 10, e + 1)
    ELSE [m |-> m, e |-> e]

\* the pieces of a stripped literal: mantissa integer part, fraction, exponent text
FloatParts(s) ==
    LET body == Unsigned(s)
        ePos == FirstOf(body, {"e", "E"})
        mant == IF ePos = 0 THEN body ELSE SubSeq(body, 1, ePos - 1)
        expo == IF ePos = 0 THEN <<>> ELSE SliceFrom(body, ePos)
        dot  == FirstOf(mant, {"."})
    IN  [int  |-> IF dot = 0 THEN mant ELSE SubSeq(mant, 1, dot - 1),
         frac |-> IF dot = 0 THEN <<>> ELSE SliceFrom(mant, dot),
         hasExp |-> ePos # 0,
         expo |-> expo]

s_inf == <<"i", "n", "f">>
s_infinity == <<"i", "n", "f", "i", "n", "i", "t", "y">>
s_nan == <<"n", "a", "n">>

\* "inf", "infinity" and "nan", signed, in any case, are literals too
IsSpecial(s) == lower(Unsigned(strip(s))) \in {s_inf, s_infinity, s_nan}

IsDecimal(s) ==
    LET p == FloatParts(strip(s))
    IN  /\ AllDigits(p.int)
        /\ AllDigits(p.frac)
        /\ Len(p.int) + Len(p.frac) > 0
        /\ p.hasExp => /\ Len(Unsigned(p.expo)) > 0
                       /\ AllDigits(Unsigned(p.expo))

\* whether float(s) returns (TRUE) or raises ValueError (FALSE); digit grouping
\* with "_" is not part of this grammar and no input of the model uses it
FloatOk(s) == IsSpecial(s) \/ IsDecimal(s)

\* the value float(s) returns, for s with FloatOk(s)
FloatVal(s) ==
    LET t == strip(s)
        p == FloatParts(t)
        m == SignOf(t) * DigitsVal(p.int \o p.frac)
        x == IF p.hasExp THEN SignOf(p.expo) * DigitsVal(Unsigned(p.expo)) ELSE 0
        n == Normalise(m, x - Len(p.frac))
    IN  IF IsSpecial(s)
        THEN IF lower(Unsigned(t)) = s_nan
             THEN [kind |-> "nan", m |-> 0, e |-> 0]
             ELSE [kind |-> "inf", m |-> SignOf(t), e |-> 0]
        ELSE [kind |-> "float", m |-> n.m, e |-> n.e]

\* entries of the list query_ascii_values builds: a float, or Python's None
None == [kind |-> "None", m |-> 0, e |-> 0]

\* width of the block header that conv_string strips: string[11:]
HeaderLen == 11

\* conv_string, the converter nested in Rigol1054Z.get_samples
conv_string(string) ==
    IF Len(strip(string)) # 0
    THEN LET s1 == IF string[1] = "#" THEN SliceFrom(string, HeaderLen) ELSE string
             \* line 168: str.replace returns a new string, which is not assigned
             discarded == replace(s1, s_ee, s_e)
             s2 == s1
         IN  IF FloatOk(s2) THEN FloatVal(s2) ELSE None
    ELSE None

(***************************************************************************)
(* The transport: what self.device.write / ask / query_ascii_values carry. *)
(***************************************************************************)
W(cmd) == [kind |-> "write", cmd |-> cmd]
Q(cmd) == [kind |-> "query", cmd |-> cmd]

ErrQuery == Q("SYST:ERR?")

\* statements in sequence: the second runs only if the first did not raise
Chain(r1, r2) ==
    IF r1.outcome # Returned THEN r1
    ELSE Res(r1.log \o r2.log, r2.outcome, r2.ret)

\* a method that calls something and returns nothing itself
Discard(r) == [r EXCEPT !.ret = RetNone]

(***************************************************************************)
(* BaseVisaDevice.                                                         *)
(***************************************************************************)
\* BaseVisaDevice.write; `error` is the instrument's reply to SYST:ERR?
write(message, error) ==
    LET traffic == <<W(message), ErrQuery>>
    IN  IF Len(error) = 0
        THEN Res(traffic, "IndexError", RetNone)            \* error[0] of ""
        ELSE IF Truthy(<<error[1]>>)                        \* if error[0]:
             THEN Res(traffic, Returned, RetInt(0))
             ELSE Res(traffic, Returned, RetStr(<<error[1]>>))

\* BaseVisaDevice.reset
reset(error) == Discard(write("*RST", error))

(***************************************************************************)
(* RigolDP832.                                                             *)
(***************************************************************************)
InvalidChannel == "RuntimeError: Invalid channel!"

DP832_turn_off(channel, error) ==
    IF channel <= 0 \/ channel > 3
    THEN Res(<<>>, InvalidChannel, RetNone)
    ELSE Discard(write(":OUTP CH" \o ToString(channel) \o ",OFF", error))

\* turn_on with the lower bound of the channel check off by one
DP832_turn_on_lowbound(channel, error) ==
    IF channel < 0 \/ channel > 3
    THEN Res(<<>>, InvalidChannel, RetNone)
    ELSE Discard(write(":OUTP CH" \o ToString(channel) \o ",ON", error))

DP832_turn_on(channel, error) ==
    IF channel <= 0 \/ channel > 3
    THEN Res(<<>>, InvalidChannel, RetNone)
    ELSE Discard(write(":OUTP CH" \o ToString(channel) \o ",ON", error))

\* query_ascii_values(cmd)[0]: the first value of the reply
QueryFirst(cmd, values) ==
    IF Len(values) = 0
    THEN Res(<<Q(cmd)>>, "IndexError", RetNone)
    ELSE Res(<<Q(cmd)>>, Returned, RetNum(values[1]))

measure_voltage(channel, dc, values) ==
    QueryFirst(":MEAS:VOLT" \o (IF dc THEN ":DC" ELSE "") \o "? CH" \o ToString(channel), values)

measure_current(channel, dc, values) ==
    QueryFirst(":MEAS:CURR" \o (IF dc THEN ":DC" ELSE "") \o "? CH" \o ToString(channel), values)

measure_power(channel, dc, values) ==
    QueryFirst(":MEAS:ALL" \o (IF dc THEN ":DC" ELSE "") \o "? CH" \o ToString(channel), values)

(***************************************************************************)
(* Rigol1054Z.                                                             *)
(***************************************************************************)
DS1054Z_turn_on(channel, error) ==
    IF channel <= 0 \/ channel > 4
    THEN Res(<<>>, InvalidChannel, RetNone)
    ELSE Discard(write(":CHAN" \o ToString(channel) \o ":DISP ON", error))

DS1054Z_turn_off(channel, error) ==
    IF channel <= 0 \/ channel > 4
    THEN Res(<<>>, InvalidChannel, RetNone)
    ELSE Discard(write(":CHAN" \o ToString(channel) \o ":DISP OFF", error))

\* numeric arguments formatted with "{}" are given by the text str() yields
channel_scale_set(channel, scale_factor, error) ==
    Discard(write(":CHAN" \o ToString(channel) \o ":SCAL " \o scale_factor, error))

channel_scale_get(channel, values) ==
    QueryFirst(":CHAN" \o ToString(channel) \o ":SCAL?", values)

channel_offset_set(channel, offset, error) ==
    Discard(write(":CHAN" \o ToString(channel) \o ":OFFS " \o offset, error))

channel_offset_get(channel, values) == QueryFirst(":WAV:YOR?", values)

timescale(ts, error) == Discard(write(":TIM:SCAL " \o ts, error))

trigger_offset(time_offset, error) == Discard(write(":TIM:OFFS " \o time_offset, error))

capture_start(error) == Discard(write(":START", error))

capture_stop(error) == Discard(write(":STOP", error))

samplerate_get(values) == QueryFirst(":ACQ:SAMP?", values)

type_lookup == (s_single :> "SING")
slope_lookup == (s_falling :> "NEG") @@ (s_rising :> "POS")

\* the replacement field of the level command's format string, between the braces
level_field == ".5f"

Zeros(n) == IF n <= 0 THEN "" ELSE IF n = 1 THEN "0" ELSE IF n = 2 THEN "00"
            ELSE IF n = 3 THEN "000" ELSE "0000"

\* format spec ".5f" applied to a value given in units of 10^-5
Fixed5(v) ==
    LET a == IF v < 0 THEN 0 - v ELSE v
        f == ToString(a % 100000)
    IN  (IF v < 0 THEN "-" ELSE "") \o ToString(a \div 100000) \o "." \o Zeros(5 - Len(f)) \o f

\* str.format on one replacement field and a float argument: "{:.5f}" applies the
\* format spec; "{.5f}" is an attribute reference (the attribute "5f" of the
\* argument), which a float does not have
FormatField(field, v) ==
    IF field = ":.5f" THEN [ok |-> TRUE, text |-> Fixed5(v)]
    ELSE [ok |-> FALSE, text |-> ""]

InvalidCoupling == "RuntimeError: Invalid coupling type!"

\* trigger_edge_config with the coupling compared without strip()
trigger_edge_config_unstripped(channel, level, trig_type, coupling, slope, errors) ==
    LET c == upper(coupling)
        s == lower(strip(slope))
        t == lower(strip(trig_type))
    IN  IF c # s_DC /\ c # s_AC THEN Res(<<>>, InvalidCoupling, RetNone)
        ELSE IF s \notin DOMAIN slope_lookup THEN Res(<<>>, "KeyError", RetNone)
        ELSE IF t \notin DOMAIN type_lookup THEN Res(<<>>, "KeyError", RetNone)
        ELSE LET w1 == write(":TRIG:EDGE:SOUR CHAN" \o ToString(channel), errors[1])
                 w2 == Chain(w1, write(":TRIG:EDGE:SWE " \o type_lookup[t], errors[2]))
                 w3 == Chain(w2, write(":TRIG:EDGE:COUP " \o Str(c), errors[3]))
                 w4 == Chain(w3, write(":TRIG:EDGE:SLOP " \o slope_lookup[s], errors[4]))
                 lev == FormatField(level_field, level)
             IN  IF w4.outcome # Returned THEN Discard(w4)
                 ELSE IF ~lev.ok THEN Res(w4.log, "AttributeError", RetNone)
                 ELSE Discard(Chain(w4, write(":TRIG:EDGE:LEV " \o lev.text, errors[5])))

\* errors[i] is the instrument's reply to the error query after the i-th write
trigger_edge_config(channel, level, trig_type, coupling, slope, errors) ==
    LET c == upper(strip(coupling))
        s == lower(strip(slope))
        t == lower(strip(trig_type))
    IN  IF c # s_DC /\ c # s_AC THEN Res(<<>>, InvalidCoupling, RetNone)
        ELSE IF s \notin DOMAIN slope_lookup THEN Res(<<>>, "KeyError", RetNone)
        ELSE IF t \notin DOMAIN type_lookup THEN Res(<<>>, "KeyError", RetNone)
        ELSE LET w1 == write(":TRIG:EDGE:SOUR CHAN" \o ToString(channel), errors[1])
                 w2 == Chain(w1, write(":TRIG:EDGE:SWE " \o type_lookup[t], errors[2]))
                 w3 == Chain(w2, write(":TRIG:EDGE:COUP " \o Str(c), errors[3]))
                 w4 == Chain(w3, write(":TRIG:EDGE:SLOP " \o slope_lookup[s], errors[4]))
                 lev == FormatField(level_field, level)
             IN  IF w4.outcome # Returned THEN Discard(w4)
                 ELSE IF ~lev.ok THEN Res(w4.log, "AttributeError", RetNone)
                 ELSE Discard(Chain(w4, write(":TRIG:EDGE:LEV " \o lev.text, errors[5])))

(***************************************************************************)
(* Inputs: what callers pass and what the instrument replies.              *)
(***************************************************************************)
Channels == (-1)..MaxChannelArg

\* replies to SYST:ERR?: "<code>,<quoted message>", never empty
reply_no_error == <<"0", ",", "\"", "N", "o", " ", "e", "r", "r", "o", "r", "\"">>
reply_undef_header == <<"1", ",", " ", "\"", "U", "n", "d", "e", "f", "i", "n", "e", "d", " ", "h", "e", "a", "d", "e", "r", "\"">>
reply_neg113 == <<"-", "1", "1", "3", ",", "\"", "U", "n", "d", "e", "f", "i", "n", "e", "d", " ", "h", "e", "a", "d", "e", "r", "\"">>

ErrReplies == {reply_no_error, reply_undef_header, reply_neg113}

\* the replies to the error queries of one trigger_edge_config call
ErrReplySeqs ==
    {[i \in 1..5 |-> reply_no_error],
     [i \in 1..5 |-> reply_undef_header],
     [i \in 1..5 |-> IF i = 3 THEN reply_neg113 ELSE reply_no_error]}

Messages == {"*CLS", ":BOGUS 1"}

\* str() of the numeric arguments callers pass
ValueTexts == {"0.5", "2"}

\* parsed replies to scalar queries (one value, or the three of :MEAS:ALL?)
ScalarReplies == {<<12>>, <<5, 2, 10>>}

\* trigger levels, in units of 10^-5 volts (0.5 V, -1.25 V)
Levels == {50000, -125000}

cpl_dc_padded == <<" ", "d", "c", " ">>
cpl_Ac == <<"A", "c">>
cpl_empty == <<>>
cpl_DCX == <<"D", "C", "X">>
cpl_D_C == <<"D", " ", "C">>
cpl_GND == <<"G", "N", "D">>
Couplings == {s_DC, cpl_dc_padded, cpl_Ac, cpl_empty, cpl_DCX, cpl_D_C, cpl_GND}

slp_Rising_padded == <<" ", "R", "i", "s", "i", "n", "g">>
slp_FALLING == <<"F", "A", "L", "L", "I", "N", "G">>
slp_rise == <<"r", "i", "s", "e">>
slp_POS == <<"P", "O", "S">>
Slopes == {s_falling, slp_Rising_padded, slp_FALLING, slp_rise, slp_POS}

trg_SINGLE_padded == <<"S", "I", "N", "G", "L", "E", " ">>
trg_normal == <<"n", "o", "r", "m", "a", "l">>
trg_SING == <<"S", "I", "N", "G">>
TrigTypes == {s_single, trg_SINGLE_padded, trg_normal, trg_SING}

tok_header == <<"#", "8", "0", "0", "0", "0", "0", "0", "0", "5">>
tok_1_23 == <<"1", ".", "2", "3">>
tok_empty == <<>>
tok_4_5ee6 == <<"4", ".", "5", "e", "e", "6">>
tok_bad == <<"b", "a", "d">>
tok_4_5e6 == <<"4", ".", "5", "e", "6">>
tok_blank == <<" ">>
tok_neg == <<" ", "-", "2", ".", "5", "e", "-", "3">>
tok_header_val == <<"#", "9", "0", "0", "0", "0", "0", "0", "0", "2", "4", "1", ".", "2", "3">>

TokenPool == {tok_header, tok_1_23, tok_empty, tok_4_5ee6, tok_bad, tok_4_5e6,
              tok_blank, tok_neg, tok_header_val}

ExampleStream == <<tok_header, tok_1_23, tok_empty, tok_4_5ee6, tok_bad>>

Streams == UNION {[1..n -> TokenPool] : n \in 0..MaxTokens} \cup {ExampleStream}

\* conv_string on each token the instrument can send (computed once)
Converted == [tok \in TokenPool |-> conv_string(tok)]

\* query_ascii_values(cmd, converter=conv_string): one list entry per token of
\* the reply, each whatever the converter returned for it
ConvertAll(tokens) == [i \in DOMAIN tokens |-> Converted[tokens[i]]]

\* get_samples; `tokens` is the instrument's reply to the data query, split
get_samples(channel, error, tokens) ==
    LET w1 == write(":WAV:FORM ASCII", error)
        w2 == Res(<<W(":WAV:POIN:MODE RAW")>>, Returned, RetNone)   \* self.device.write
        q  == Res(<<Q(":WAV:DATA? CHAN1")>>, Returned, RetList(ConvertAll(tokens)))
    IN  Chain(Chain(w1, w2), q)

(***************************************************************************)
(* One action per public method: the caller picks the arguments, the       *)
(* instrument picks its replies, the method runs to its end.               *)
(***************************************************************************)
Call_write ==
    /\ phase = "ready"
    /\ \E message \in Messages, error \in ErrReplies :
         LET r == write(message, error)
         IN  /\ log' = r.log
             /\ call' = [NoCall EXCEPT !.op = "write", !.text = message, !.reply = error,
                                       !.outcome = r.outcome, !.ret = r.ret]
    /\ phase' = "called"
    /\ UNCHANGED <<cls, discovery, usb_devices, opened, device>>

Call_reset ==
    /\ phase = "ready"
    /\ \E error \in ErrReplies :
         LET r == reset(error)
         IN  /\ log' = r.log
             /\ call' = [NoCall EXCEPT !.op = "reset",
                                       !.outcome = r.outcome, !.ret = r.ret]
    /\ phase' = "called"
    /\ UNCHANGED <<cls, discovery, usb_devices, opened, device>>

Call_DP832_turn_off ==
    /\ phase = "ready"
    /\ cls = "RigolDP832"
    /\ \E channel \in Channels, error \in ErrReplies :
         LET r == DP832_turn_off(channel, error)
         IN  /\ log' = r.log
             /\ call' = [NoCall EXCEPT !.op = "RigolDP832.turn_off", !.channel = channel,
                                       !.outcome = r.outcome, !.ret = r.ret]
    /\ phase' = "called"
    /\ UNCHANGED <<cls, discovery, usb_devices, opened, device>>

Call_DP832_turn_on ==
    /\ phase = "ready"
    /\ cls = "RigolDP832"
    /\ \E channel \in Channels, error \in ErrReplies :
         LET r == DP832_turn_on(channel, error)
         IN  /\ log' = r.log
             /\ call' = [NoCall EXCEPT !.op = "RigolDP832.turn_on", !.channel = channel,
                                       !.outcome = r.outcome, !.ret = r.ret]
    /\ phase' = "called"
    /\ UNCHANGED <<cls, discovery, usb_devices, opened, device>>

Call_measure_voltage ==
    /\ phase = "ready"
    /\ cls = "RigolDP832"
    /\ \E channel \in Channels, dc \in BOOLEAN, values \in ScalarReplies :
         LET r == measure_voltage(channel, dc, values)
         IN  /\ log' = r.log
             /\ call' = [NoCall EXCEPT !.op = "measure_voltage", !.channel = channel, !.dc = dc,
                                       !.outcome = r.outcome, !.ret = r.ret]
    /\ phase' = "called"
    /\ UNCHANGED <<cls, discovery, usb_devices, opened, device>>

Call_measure_current ==
    /\ phase = "ready"
    /\ cls = "RigolDP832"
    /\ \E channel \in Channels, dc \in BOOLEAN, values \in ScalarReplies :
         LET r == measure_current(channel, dc, values)
         IN  /\ log' = r.log
             /\ call' = [NoCall EXCEPT !.op = "measure_current", !.channel = channel, !.dc = dc,
                                       !.outcome = r.outcome, !.ret = r.ret]
    /\ phase' = "called"
    /\ UNCHANGED <<cls, discovery, usb_devices, opened, device>>

Call_measure_power ==
    /\ phase = "ready"
    /\ cls = "RigolDP832"
    /\ \E channel \in Channels, dc \in BOOLEAN, values \in ScalarReplies :
         LET r == measure_power(channel, dc, values)
         IN  /\ log' = r.log
             /\ call' = [NoCall EXCEPT !.op = "measure_power", !.channel = channel, !.dc = dc,
                                       !.outcome = r.outcome, !.ret = r.ret]
    /\ phase' = "called"
    /\ UNCHANGED <<cls, discovery, usb_devices, opened, device>>

Call_DS1054Z_turn_on ==
    /\ phase = "ready"
    /\ cls = "Rigol1054Z"
    /\ \E channel \in Channels, error \in ErrReplies :
         LET r == DS1054Z_turn_on(channel, error)
         IN  /\ log' = r.log
             /\ call' = [NoCall EXCEPT !.op = "Rigol1054Z.turn_on", !.channel = channel,
                                       !.outcome = r.outcome, !.ret = r.ret]
    /\ phase' = "called"
    /\ UNCHANGED <<cls, discovery, usb_devices, opened, device>>

Call_DS1054Z_turn_off ==
    /\ phase = "ready"
    /\ cls = "Rigol1054Z"
    /\ \E channel \in Channels, error \in ErrReplies :
         LET r == DS1054Z_turn_off(channel, error)
         IN  /\ log' = r.log
             /\ call' = [NoCall EXCEPT !.op = "Rigol1054Z.turn_off", !.channel = channel,
                                       !.outcome = r.outcome, !.ret = r.ret]
    /\ phase' = "called"
    /\ UNCHANGED <<cls, discovery, usb_devices, opened, device>>

Call_channel_scale_set ==
    /\ phase = "ready"
    /\ cls = "Rigol1054Z"
    /\ \E channel \in Channels, scale_factor \in ValueTexts, error \in ErrReplies :
         LET r == channel_scale_set(channel, scale_factor, error)
         IN  /\ log' = r.log
             /\ call' = [NoCall EXCEPT !.op = "channel_scale_set", !.channel = channel, !.text = scale_factor,
                                       !.outcome = r.outcome, !.ret = r.ret]
    /\ phase' = "called"
    /\ UNCHANGED <<cls, discovery, usb_devices, opened, device>>

Call_channel_scale_get ==
    /\ phase = "ready"
    /\ cls = "Rigol1054Z"
    /\ \E channel \in Channels, values \in ScalarReplies :
         LET r == channel_scale_get(channel, values)
         IN  /\ log' = r.log
             /\ call' = [NoCall EXCEPT !.op = "channel_scale_get", !.channel = channel,
                                       !.outcome = r.outcome, !.ret = r.ret]
    /\ phase' = "called"
    /\ UNCHANGED <<cls, discovery, usb_devices, opened, device>>

Call_channel_offset_set ==
    /\ phase = "ready"
    /\ cls = "Rigol1054Z"
    /\ \E channel \in Channels, offset \in ValueTexts, error \in ErrReplies :
         LET r == channel_offset_set(channel, offset, error)
         IN  /\ log' = r.log
             /\ call' = [NoCall EXCEPT !.op = "channel_offset_set", !.channel = channel, !.text = offset,
                                       !.outcome = r.outcome, !.ret = r.ret]
    /\ phase' = "called"
    /\ UNCHANGED <<cls, discovery, usb_devices, opened, device>>

Call_channel_offset_get ==
    /\ phase = "ready"
    /\ cls = "Rigol1054Z"
    /\ \E channel \in Channels, values \in ScalarReplies :
         LET r == channel_offset_get(channel, values)
         IN  /\ log' = r.log
             /\ call' = [NoCall EXCEPT !.op = "channel_offset_get", !.channel = channel,
                                       !.outcome = r.outcome, !.ret = r.ret]
    /\ phase' = "called"
    /\ UNCHANGED <<cls, discovery, usb_devices, opened, device>>

Call_timescale ==
    /\ phase = "ready"
    /\ cls = "Rigol1054Z"
    /\ \E ts \in ValueTexts, error \in ErrReplies :
         LET r == timescale(ts, error)
         IN  /\ log' = r.log
             /\ call' = [NoCall EXCEPT !.op = "timescale", !.text = ts,
                                       !.outcome = r.outcome, !.ret = r.ret]
    /\ phase' = "called"
    /\ UNCHANGED <<cls, discovery, usb_devices, opened, device>>

Call_trigger_offset ==
    /\ phase = "ready"
    /\ cls = "Rigol1054Z"
    /\ \E time_offset \in ValueTexts, error \in ErrReplies :
         LET r == trigger_offset(time_offset, error)
         IN  /\ log' = r.log
             /\ call' = [NoCall EXCEPT !.op = "trigger_offset", !.text = time_offset,
                                       !.outcome = r.outcome, !.ret = r.ret]
    /\ phase' = "called"
    /\ UNCHANGED <<cls, discovery, usb_devices, opened, device>>

Call_capture_start ==
    /\ phase = "ready"
    /\ cls = "Rigol1054Z"
    /\ \E error \in ErrReplies :
         LET r == capture_start(error)
         IN  /\ log' = r.log
             /\ call' = [NoCall EXCEPT !.op = "capture_start",
                                       !.outcome = r.outcome, !.ret = r.ret]
    /\ phase' = "called"
    /\ UNCHANGED <<cls, discovery, usb_devices, opened, device>>

Call_capture_stop ==
    /\ phase = "ready"
    /\ cls = "Rigol1054Z"
    /\ \E error \in ErrReplies :
         LET r == capture_stop(error)
         IN  /\ log' = r.log
             /\ call' = [NoCall EXCEPT !.op = "capture_stop",
                                       !.outcome = r.outcome, !.ret = r.ret]
    /\ phase' = "called"
    /\ UNCHANGED <<cls, discovery, usb_devices, opened, device>>

Call_trigger_edge_config ==
    /\ phase = "ready"
    /\ cls = "Rigol1054Z"
    /\ \E channel \in Channels, level \in Levels, trig_type \in TrigTypes, coupling \in Couplings, slope \in Slopes, errors \in ErrReplySeqs :
         LET r == trigger_edge_config(channel, level, trig_type, coupling, slope, errors)
         IN  /\ log' = r.log
             /\ call' = [NoCall EXCEPT !.op = "trigger_edge_config", !.channel = channel, !.level = level, !.trig_type = trig_type, !.coupling = coupling, !.slope = slope,
                                       !.outcome = r.outcome, !.ret = r.ret]
    /\ phase' = "called"
    /\ UNCHANGED <<cls, discovery, usb_devices, opened, device>>

Call_get_samples ==
    /\ phase = "ready"
    /\ cls = "Rigol1054Z"
    /\ \E channel \in Channels, error \in ErrReplies, tokens \in Streams :
         LET r == get_samples(channel, error, tokens)
         IN  /\ log' = r.log
             /\ call' = [NoCall EXCEPT !.op = "get_samples", !.channel = channel, !.tokens = tokens,
                                       !.outcome = r.outcome, !.ret = r.ret]
    /\ phase' = "called"
    /\ UNCHANGED <<cls, discovery, usb_devices, opened, device>>

Call_samplerate_get ==
    /\ phase = "ready"
    /\ cls = "Rigol1054Z"
    /\ \E values \in ScalarReplies :
         LET r == samplerate_get(values)
         IN  /\ log' = r.log
             /\ call' = [NoCall EXCEPT !.op = "samplerate_get",
                                       !.outcome = r.outcome, !.ret = r.ret]
    /\ phase' = "called"
    /\ UNCHANGED <<cls, discovery, usb_devices, opened, device>>

\* the caller takes the result (or catches the exception) and goes on to its
\* next statement; the object is as it was
Caller_continue ==
    /\ phase = "called"
    /\ phase' = "ready"
    /\ log' = <<>>
    /\ call' = NoCall
    /\ UNCHANGED <<cls, discovery, usb_devices, opened, device>>

\* close_instrument: self.device.close()
Call_close_instrument ==
    /\ phase = "ready"
    /\ phase' = "closed"
    /\ log' = <<>>
    /\ call' = [NoCall EXCEPT !.op = "close_instrument", !.outcome = Returned]
    /\ UNCHANGED <<cls, discovery, usb_devices, opened, device>>

\* __exit__ of the `with` block: close_instrument
Call_exit ==
    /\ phase = "ready"
    /\ phase' = "closed"
    /\ log' = <<>>
    /\ call' = [NoCall EXCEPT !.op = "__exit__", !.outcome = Returned]
    /\ UNCHANGED <<cls, discovery, usb_devices, opened, device>>

\* the bench the operations run against: one supply and one scope on USB
Bench == [ok |-> TRUE, list |-> <<id_tcp_dp8, id_usb_dp8_a, id_usb_ds1z>>]

\* the state after a successful construction of either class
Init ==
    /\ discovery = Bench
    /\ log = <<>>
    /\ \/ /\ cls = "RigolDP832"
          /\ LET r == FamilyInit(Bench, s_DP8, DP832NotFound)
             IN  /\ phase = r.phase
                 /\ usb_devices = r.usb_devices
                 /\ opened = r.opened
                 /\ device = r.device
                 /\ call = NoCall
       \/ /\ cls = "Rigol1054Z"
          /\ LET r == FamilyInit(Bench, s_DS1Z, DS1054ZNotFound)
             IN  /\ phase = r.phase
                 /\ usb_devices = r.usb_devices
                 /\ opened = r.opened
                 /\ device = r.device
                 /\ call = NoCall

Next ==
    \/ Call_write
    \/ Call_reset
    \/ Call_DP832_turn_off
    \/ Call_DP832_turn_on
    \/ Call_measure_voltage
    \/ Call_measure_current
    \/ Call_measure_power
    \/ Call_DS1054Z_turn_on
    \/ Call_DS1054Z_turn_off
    \/ Call_channel_scale_set
    \/ Call_channel_scale_get
    \/ Call_channel_offset_set
    \/ Call_channel_offset_get
    \/ Call_timescale
    \/ Call_trigger_offset
    \/ Call_capture_start
    \/ Call_capture_stop
    \/ Call_trigger_edge_config
    \/ Call_get_samples
    \/ Call_samplerate_get
    \/ Caller_continue
    \/ Call_close_instrument
    \/ Call_exit

Spec == Init /\ [][Next]_vars

InitConstruct ==
    /\ phase = "new"
    /\ cls = "none"
    /\ discovery \in Discoveries
    /\ usb_devices = Unset
    /\ opened = <<>>
    /\ device = Unset
    /\ log = <<>>
    /\ call = NoCall

NextConstruct == RigolDP832_init \/ Rigol1054Z_init

SpecConstruct == InitConstruct /\ [][NextConstruct]_vars

(***************************************************************************)
(* Properties.                                                             *)
(***************************************************************************)
Called(op) == phase = "called" /\ call.op = op

\* the command strings written (not queried) during the most recent call
Writes(l) ==
    LET w == SelectSeq(l, LAMBDA x : x.kind = "write")
    IN  [i \in DOMAIN w |-> w[i].cmd]

F(m, e) == [kind |-> "float", m |-> m, e |-> e]

DigitText == <<"1", "2", "3", "4">>

\* C1: every command written to the transport is immediately followed by the
\* SYST:ERR? query, before any other command and before the call returns.
C1_WriteThenVerify ==
    \A i \in DOMAIN log :
        log[i].kind = "write" => (i < Len(log) /\ log[i + 1] = ErrQuery)

\* the replies that denote "no error"
NoErrorReplies == {reply_no_error}

\* C2: write does not raise, and it returns the "ok" value 0 only when the reply
\* to the error query denotes no error.
C2_ErrorReported ==
    Called("write") =>
        /\ call.outcome = Returned
        /\ call.ret = RetInt(0) => call.reply \in NoErrorReplies

ChannelOps ==
    {"RigolDP832.turn_on", "RigolDP832.turn_off", "measure_voltage", "measure_current",
     "measure_power", "Rigol1054Z.turn_on", "Rigol1054Z.turn_off", "channel_scale_set",
     "channel_scale_get", "channel_offset_set", "trigger_edge_config", "get_samples"}

MaxChannelOf(c) == IF c = "RigolDP832" THEN 3 ELSE 4

ValidChannel(c, ch) == 1 <= ch /\ ch <= MaxChannelOf(c)

\* C3: a call of a channel operation with a channel outside the family's range
\* fails before anything is written or queried on the transport.
C3_InvalidChannelNeverSent ==
    (phase = "called" /\ call.op \in ChannelOps /\ ~ValidChannel(cls, call.channel)) =>
        /\ log = <<>>
        /\ call.outcome # Returned

TurnOps ==
    {"RigolDP832.turn_on", "RigolDP832.turn_off", "Rigol1054Z.turn_on", "Rigol1054Z.turn_off"}

\* the command of a turn operation: the same text but for the ON/OFF token
TurnCommand(op, ch) ==
    LET token == IF op \in {"RigolDP832.turn_on", "Rigol1054Z.turn_on"} THEN "ON" ELSE "OFF"
    IN  IF op \in {"RigolDP832.turn_on", "RigolDP832.turn_off"}
        THEN ":OUTP CH" \o DigitText[ch] \o "," \o token
        ELSE ":CHAN" \o DigitText[ch] \o ":DISP " \o token

\* C4: turn_on / turn_off on either class: a channel within 1..maxChannel
\* succeeds and writes exactly one command, naming that channel with the ON
\* (turn_on) or OFF (turn_off) token; any other channel fails with the
\* invalid-channel error and nothing is written.
C4_TurnChannelValidated ==
    (phase = "called" /\ call.op \in TurnOps) =>
        IF ValidChannel(cls, call.channel)
        THEN /\ call.outcome = Returned
             /\ Writes(log) = <<TurnCommand(call.op, call.channel)>>
        ELSE /\ call.outcome = InvalidChannel
             /\ log = <<>>

C4_Witness ==
    /\ Called("RigolDP832.turn_on")
    /\ call.channel = 2
    /\ call.outcome = Returned
    /\ Writes(log) = <<":OUTP CH2,ON">>

WellFormedTokens == {tok_1_23, tok_4_5e6, tok_neg}
MalformedTokens == {tok_empty, tok_blank, tok_bad}

TokenValue(tok) ==
    IF tok = tok_1_23 THEN F(123, -2)
    ELSE IF tok = tok_4_5e6 THEN F(45, 5)
    ELSE F(-25, -4)

\* the values of the well-formed tokens of a stream, in their order
WellFormedValues(tokens) ==
    LET wf == SelectSeq(tokens, LAMBDA tok : tok \in WellFormedTokens)
    IN  [i \in DOMAIN wf |-> TokenValue(wf[i])]

\* C5: decoding a stream of well-formed and malformed (empty, blank,
\* non-numeric) tokens returns exactly the values of the well-formed ones, in
\* order, with no entry for a dropped token and no exception.
C5_MalformedTokensDropped ==
    (/\ Called("get_samples")
     /\ \A i \in DOMAIN call.tokens : call.tokens[i] \in WellFormedTokens \cup MalformedTokens) =>
        /\ call.outcome = Returned
        /\ call.ret.data = WellFormedValues(call.tokens)

Count(s, set) == Cardinality({i \in DOMAIN s : s[i] \in set})

\* C6: a token with a doubled exponent marker ("4.5ee6") is decoded to the
\* value of its single-marker form (4.5e6), and the stream
\* "#800000005", "1.23", "", "4.5ee6", "bad" decodes to [1.23, 4.5e6].
C6_DoubledExponentCorrected ==
    Called("get_samples") =>
        /\ Count(call.ret.data, {F(45, 5)}) = Count(call.tokens, {tok_4_5ee6, tok_4_5e6})
        /\ call.tokens = ExampleStream => call.ret.data = <<F(123, -2), F(45, 5)>>

AcceptedCouplings == {s_DC, cpl_dc_padded, cpl_Ac}
AcceptedSlopes == {s_falling, slp_Rising_padded, slp_FALLING}
AcceptedTrigTypes == {s_single, trg_SINGLE_padded}

Accepted ==
    /\ call.coupling \in AcceptedCouplings
    /\ call.slope \in AcceptedSlopes
    /\ call.trig_type \in AcceptedTrigTypes

CouplingWord(c) == IF c = cpl_Ac THEN "AC" ELSE "DC"
SlopeWord(s) == IF s = slp_Rising_padded THEN "POS" ELSE "NEG"
LevelText(l) == IF l = 50000 THEN "0.50000" ELSE "-1.25000"

\* C7: trigger_edge_config with accepted parameters writes exactly five
\* commands, in the order source, sweep, coupling, slope, level (the level with
\* 5 decimal places), and then returns without error.
C7_FiveCommandsInOrder ==
    (Called("trigger_edge_config") /\ Accepted) =>
        /\ call.outcome = Returned
        /\ Writes(log) = << ":TRIG:EDGE:SOUR CHAN" \o ToString(call.channel),
                            ":TRIG:EDGE:SWE SING",
                            ":TRIG:EDGE:COUP " \o CouplingWord(call.coupling),
                            ":TRIG:EDGE:SLOP " \o SlopeWord(call.slope),
                            ":TRIG:EDGE:LEV " \o LevelText(call.level) >>

\* C8: trigger_edge_config accepts coupling DC/AC, slope rising/falling and
\* trig_type single, each trimmed and case-insensitive, and nothing else: with
\* all three accepted it goes on to write to the transport; with any one not
\* accepted it fails with an error and nothing has been written.
C8_ParametersValidatedFirst ==
    Called("trigger_edge_config") =>
        /\ Accepted => log # <<>>
        /\ ~Accepted => (call.outcome # Returned /\ log = <<>>)
        /\ call.coupling \notin AcceptedCouplings => call.outcome = InvalidCoupling

C8_Witness ==
    /\ Called("trigger_edge_config")
    /\ call.coupling = cpl_dc_padded
    /\ call.slope = slp_rise
    /\ call.trig_type = trg_SINGLE_padded
    /\ call.outcome = "KeyError"
    /\ log = <<>>

SupplyIds == {id_usb_dp8_a, id_usb_dp8_b}
ScopeIds == {id_usb_ds1z}

\* C9: construction against any discovery result: with no USB identifier of the
\* family it fails with the device-not-found error and opens nothing; otherwise
\* it opens exactly the first such identifier and binds the handle to it.
C9_ConstructionAtomic ==
    phase \in {"ready", "failed"} =>
        LET family == IF cls = "RigolDP832" THEN SupplyIds ELSE ScopeIds
            notFound == IF cls = "RigolDP832" THEN DP832NotFound ELSE DS1054ZNotFound
            l == discovery.list
            hits == {i \in DOMAIN l : l[i] \in family}
        IN  IF hits = {}
            THEN /\ call.outcome = notFound
                 /\ opened = <<>>
                 /\ ~device.set
            ELSE LET first == CHOOSE i \in hits : \A j \in hits : i <= j
                 IN  /\ call.outcome = Returned
                     /\ opened = <<l[first]>>
                     /\ device = Attr(l[first])

\* C10: get_samples(c), c in 1..4, writes the ASCII-format command, then the
\* raw-points-mode command, then queries the waveform data of channel c.
C10_SamplesOfRequestedChannel ==
    (Called("get_samples") /\ call.channel \in 1..4) =>
        /\ call.outcome = Returned
        /\ \E i, j, k \in DOMAIN log :
              /\ i < j /\ j < k
              /\ log[i] = W(":WAV:FORM ASCII")
              /\ log[j] = W(":WAV:POIN:MODE RAW")
              /\ log[k] = Q(":WAV:DATA? CHAN" \o DigitText[call.channel])

====
